---- MODULE Spec2Model ----
(***************************************************************************)
(* A model of pb137/socks5proxy: the event-driven connection runtime       *)
(* (connector.py, protocol.py), the SOCKS5 codec (socks5.py), the          *)
(* authenticator (authenticator.py) and the SOCKS5 session with its paired *)
(* remote handler (socks5_server.py, remote_server_protocol.py).           *)
(*                                                                         *)
(* Every Protocol object (a session accepted by the server, or the         *)
(* RemoteServerProtocol a session creates) is a number; its fields are the *)
(* components of the state at that number.  A method of the source is an   *)
(* operator from a state record to a state record, so that the re-entrant  *)
(* calls of the source (write -> _close -> connection_lost -> the peer's   *)
(* closing -> ...) compose as they do in the program.  One action of the   *)
(* model is one callback dispatched by Connector.start, or one step of a   *)
(* name-lookup worker thread.                                              *)
(***************************************************************************)
EXTENDS Naturals, Sequences, FiniteSets

\* ------------------------------------------------------------------ bounds

\* Sessions the listening socket accepts.
MaxSessions == 2
\* Sessions it accepts where sessions get their remote connections.
MaxPairedSessions == 1
\* RemoteServerProtocol objects created over a run.
MaxRemotes == 2
\* Chunks recv() delivers on one accepted socket.
MaxChunks == 3
\* Chunks recv() delivers on the accepted sockets, all together.
MaxReads == 5
\* Chunks recv() delivers on the outbound sockets, all together.
MaxRemoteReads == 1
\* Bytes of a greeting frame handed to the codec.
MaxGreetingLen == 5
\* Bytes of a username/password frame handed to the codec.
MaxAuthLen == 6

Sessions == 1..MaxSessions
Remotes == (MaxSessions + 1)..(MaxSessions + MaxRemotes)
Objects == Sessions \cup Remotes
\* Python's None, for a field that holds a Protocol object.
None == 0

\* ------------------------------------------------------- codec (socks5.py)

PROTOCOL_VERSION == 5
AUTH_OK == 0
AUTH_FAIL == 255
NO_AUTH == 0
USER_PWD == 2
NO_METHOD == 255
AUTH_METHODS == <<USER_PWD, NO_AUTH>>
MIN_CLIENT_GREETING_LEN == 3
PROTOCOL_INDEX == 0
AUTH_METHODS_INDEX == 1
MIN_CLIENT_AUTH_LEN == 5
AUTH_VER_INDEX == 0
AUTH_ULEN_INDEX == 1
AUTH_VERSION == 1
MIN_CLIENT_CONN_LEN == 8
COMMAND_INDEX == 1
COMMAND_STREAM == 1
RESERVED_INDEX == 2
RESERVED_VALUE == 0
ADDRESS_INDEX == 3
ADDRESS_IPV4 == 1
ADDRESS_DOMAIN == 3
ADDRESS_IPV6 == 4
REQUEST_GRANTED == 0
CONNECTION_REFUSED == 5

Min(a, b) == IF a < b THEN a ELSE b

\* data[i] of Python, i counted from 0; the caller has checked i < len(data).
At(data, i) == data[i + 1]

\* data[i:j] of Python for 0 <= i, clipped to the data as slicing clips.
Slice(data, i, j) ==
    LET hi == Min(j, Len(data))
    IN IF i >= hi THEN << >> ELSE SubSeq(data, i + 1, hi)

\* The elements of a sequence.
Range(seq) == {seq[i] : i \in 1..Len(seq)}

\* int.from_bytes(data, byteorder="big", signed=False)
RECURSIVE from_bytes(_)
from_bytes(data) ==
    IF Len(data) = 0 THEN 0
    ELSE 256 * from_bytes(SubSeq(data, 1, Len(data) - 1)) + data[Len(data)]

\* A parser's result: the exception it raised ("none" when it returned) and
\* the value it returned.
Raised(e) == [err |-> e, val |-> << >>]
Returned(v) == [err |-> "none", val |-> v]

\* parse_client_greeting as it would be with the length of the header counted
\* once too often in min_length.
parse_client_greeting_long(data) ==
    IF Len(data) < MIN_CLIENT_GREETING_LEN THEN Raised("ProtocolError")
    ELSE IF At(data, PROTOCOL_INDEX) # PROTOCOL_VERSION THEN Raised("ProtocolError")
    ELSE IF At(data, AUTH_METHODS_INDEX) = 0 THEN Raised("ProtocolError")
    ELSE LET n_auth == At(data, AUTH_METHODS_INDEX)
             min_length == n_auth + MIN_CLIENT_GREETING_LEN
         IN IF Len(data) < min_length THEN Raised("ProtocolError")
            ELSE Returned(Slice(data, AUTH_METHODS_INDEX + 1,
                                AUTH_METHODS_INDEX + 1 + n_auth))

parse_client_greeting(data) ==
    IF Len(data) < MIN_CLIENT_GREETING_LEN THEN Raised("ProtocolError")
    ELSE IF At(data, PROTOCOL_INDEX) # PROTOCOL_VERSION THEN Raised("ProtocolError")
    ELSE IF At(data, AUTH_METHODS_INDEX) = 0 THEN Raised("ProtocolError")
    ELSE LET n_auth == At(data, AUTH_METHODS_INDEX)
             min_length == n_auth + MIN_CLIENT_GREETING_LEN - 1
         IN IF Len(data) < min_length THEN Raised("ProtocolError")
            ELSE Returned(Slice(data, AUTH_METHODS_INDEX + 1,
                                AUTH_METHODS_INDEX + 1 + n_auth))

RECURSIVE choose_from(_, _)
choose_from(preferred, auth_methods) ==
    IF Len(preferred) = 0 THEN NO_METHOD
    ELSE IF Head(preferred) \in Range(auth_methods) THEN Head(preferred)
    ELSE choose_from(Tail(preferred), auth_methods)

choose_auth_method(auth_methods) == choose_from(AUTH_METHODS, auth_methods)

greeting_response(auth_method) == <<PROTOCOL_VERSION, auth_method>>

\* Returns <<auth_method, response>>.
handle_client_greeting(data) ==
    LET auth_methods == parse_client_greeting(data)
    IN IF auth_methods.err # "none" THEN auth_methods
       ELSE LET auth_method == choose_auth_method(auth_methods.val)
            IN Returned(<<auth_method, greeting_response(auth_method)>>)

\* Returns <<username, password>>.  data[plen_index] is read after a check
\* that lets len(data) = plen_index through: Python raises IndexError there.
parse_username_password(data) ==
    IF Len(data) < MIN_CLIENT_AUTH_LEN THEN Raised("ProtocolError")
    ELSE IF At(data, AUTH_VER_INDEX) # AUTH_VERSION THEN Raised("ProtocolError")
    ELSE LET ulen == At(data, AUTH_ULEN_INDEX)
             plen_index == AUTH_ULEN_INDEX + 1 + ulen
             username == Slice(data, AUTH_ULEN_INDEX + 1, AUTH_ULEN_INDEX + 1 + ulen)
         IN IF Len(data) < AUTH_ULEN_INDEX + 1 + ulen THEN Raised("ProtocolError")
            ELSE IF Len(data) < plen_index THEN Raised("ProtocolError")
            ELSE IF ~(plen_index < Len(data)) THEN Raised("IndexError")
            ELSE LET plen == At(data, plen_index)
                 IN IF Len(data) < plen_index + 1 + plen THEN Raised("ProtocolError")
                    ELSE Returned(<<username,
                                    Slice(data, plen_index + 1, plen_index + 1 + plen)>>)

\* bytes.decode('ascii') raises UnicodeDecodeError on a byte above 127.
IsAscii(data) == \A i \in 1..Len(data) : data[i] < 128

\* parse_connection_request as it would be without the test of the command.
parse_connection_request_any_command(data) ==
    IF Len(data) < MIN_CLIENT_CONN_LEN THEN Raised("ProtocolError")
    ELSE IF At(data, PROTOCOL_INDEX) # PROTOCOL_VERSION THEN Raised("ProtocolError")
    ELSE IF At(data, RESERVED_INDEX) # RESERVED_VALUE THEN Raised("ProtocolError")
    ELSE LET addr_type == At(data, ADDRESS_INDEX)
         IN IF addr_type = ADDRESS_IPV4
              THEN Returned(<<Slice(data, 4, 8), from_bytes(Slice(data, 8, 10)),
                              ADDRESS_IPV4>>)
            ELSE IF addr_type = ADDRESS_DOMAIN
              THEN LET alen == At(data, 4)
                   IN IF ~IsAscii(Slice(data, 5, 5 + alen))
                        THEN Raised("UnicodeDecodeError")
                        ELSE Returned(<<Slice(data, 5, 5 + alen),
                                        from_bytes(Slice(data, 5 + alen, 7 + alen)),
                                        ADDRESS_DOMAIN>>)
            ELSE IF addr_type = ADDRESS_IPV6
              THEN Returned(<<Slice(data, 4, 20), from_bytes(Slice(data, 20, 22)),
                              ADDRESS_IPV6>>)
            ELSE Raised("ProtocolError")

\* Returns <<addr, port, addr_type>>; addr is the bytes the address is read
\* from (the octets of a numeric address, or the ASCII name).
parse_connection_request(data) ==
    IF Len(data) < MIN_CLIENT_CONN_LEN THEN Raised("ProtocolError")
    ELSE IF At(data, PROTOCOL_INDEX) # PROTOCOL_VERSION THEN Raised("ProtocolError")
    ELSE IF At(data, COMMAND_INDEX) # COMMAND_STREAM THEN Raised("ProtocolError")
    ELSE IF At(data, RESERVED_INDEX) # RESERVED_VALUE THEN Raised("ProtocolError")
    ELSE LET addr_type == At(data, ADDRESS_INDEX)
         IN IF addr_type = ADDRESS_IPV4
              THEN Returned(<<Slice(data, 4, 8), from_bytes(Slice(data, 8, 10)),
                              ADDRESS_IPV4>>)
            ELSE IF addr_type = ADDRESS_DOMAIN
              THEN LET alen == At(data, 4)
                   IN IF ~IsAscii(Slice(data, 5, 5 + alen))
                        THEN Raised("UnicodeDecodeError")
                        ELSE Returned(<<Slice(data, 5, 5 + alen),
                                        from_bytes(Slice(data, 5 + alen, 7 + alen)),
                                        ADDRESS_DOMAIN>>)
            ELSE IF addr_type = ADDRESS_IPV6
              THEN Returned(<<Slice(data, 4, 20), from_bytes(Slice(data, 20, 22)),
                              ADDRESS_IPV6>>)
            ELSE Raised("ProtocolError")

authentication_success == <<AUTH_VERSION, AUTH_OK>>
authentication_failure == <<AUTH_VERSION, AUTH_FAIL>>

\* port.to_bytes(2, "big")
to_bytes2(port) == <<port \div 256, port % 256>>

\* host is the octets of an IPv4 literal (the session's local address).
_connection_response(host, port, status) ==
    <<PROTOCOL_VERSION, status, RESERVED_VALUE, ADDRESS_IPV4>> \o host \o to_bytes2(port)

connection_success(host, port) == _connection_response(host, port, REQUEST_GRANTED)
connection_failure(host, port) == _connection_response(host, port, CONNECTION_REFUSED)

\* ------------------------------------------ authenticator (authenticator.py)

\* The credential table loaded at startup: one user, "u" with password "p".
passwords == [u \in {<<117>>} |-> <<112>>]

authenticate(username, password) ==
    IF username \in DOMAIN passwords /\ passwords[username] = password
    THEN TRUE ELSE FALSE

\* ------------------------------------------------------------------- state

VARIABLES
    loop,                     \* Connector.start: "running", or "terminated" by an exception
    uncaught,                 \* the exception that left Connector.start ("none" so far)
    sock,                     \* Protocol._sock: "none" (None), "open", "closed"
    handlers,                 \* the four handler fields: "unconnected", "connected", "closing"
    registered,               \* the selector's key.data for the socket: "none",
                              \*   "connection_complete", "read" (_read), "write" (_write)
    write_buffer,             \* Protocol._write_buffer
    net,                      \* the connection as the kernel has it: "inprogress", "up", "down"
    data_received_handler,    \* Socks5Protocol._data_received_handler
    remote_server_protocol,   \* Socks5Protocol._remote_server_protocol
    client_protocol,          \* RemoteServerProtocol._client_protocol
    lookups,                  \* worker threads inside socket.gethostbyname, per session
    making,                   \* worker threads between lines 104 and 105 of the callback
    reads,                    \* chunks recv() has delivered on the socket
    written,                  \* history: the bytes write() has put in the buffer
    sent,                     \* history: the bytes sock.send() has taken
    received,                 \* history: the bytes handed on to the peer handler's write()
    lost,                     \* history: the calls of connection_lost
    requests,                 \* history: the connection requests the session has parsed
    tags,                     \* history: what has happened to the object
    frame,                    \* the bytes a codec function was last called with
    result                    \* the codec function called, and what it raised or returned

vars == <<loop, uncaught, sock, handlers, registered, write_buffer, net,
          data_received_handler, remote_server_protocol, client_protocol,
          lookups, making, reads, written, sent, received, lost, requests, tags,
          frame, result>>

\* The fields of the objects and of the event loop.
server == <<loop, uncaught, sock, handlers, registered, write_buffer, net,
            data_received_handler, remote_server_protocol, client_protocol,
            lookups, making, reads, written, sent, received, lost, requests, tags>>

\* The state as a record; exc is the exception in flight in the callback, and
\* full says that the callback asked for more objects than MaxRemotes.
Cur ==
    [loop |-> loop, uncaught |-> uncaught, sock |-> sock, handlers |-> handlers,
     registered |-> registered, write_buffer |-> write_buffer, net |-> net,
     data_received_handler |-> data_received_handler,
     remote_server_protocol |-> remote_server_protocol,
     client_protocol |-> client_protocol, lookups |-> lookups, making |-> making,
     reads |-> reads, written |-> written, sent |-> sent, received |-> received,
     lost |-> lost, requests |-> requests, tags |-> tags, exc |-> "none",
     full |-> FALSE]

\* The state after a callback that ran on the event loop's thread: an
\* exception nobody caught leaves Connector.start (connector.py:92-97 has no
\* try), and socks5app.main catches KeyboardInterrupt only.
SetServer(st) ==
    /\ loop' = IF st.exc # "none" THEN "terminated" ELSE st.loop
    /\ uncaught' = IF st.exc # "none" THEN st.exc ELSE st.uncaught
    /\ sock' = st.sock
    /\ handlers' = st.handlers
    /\ registered' = st.registered
    /\ write_buffer' = st.write_buffer
    /\ net' = st.net
    /\ data_received_handler' = st.data_received_handler
    /\ remote_server_protocol' = st.remote_server_protocol
    /\ client_protocol' = st.client_protocol
    /\ lookups' = st.lookups
    /\ making' = st.making
    /\ reads' = st.reads
    /\ written' = st.written
    /\ sent' = st.sent
    /\ received' = st.received
    /\ lost' = st.lost
    /\ requests' = st.requests
    /\ tags' = st.tags

Set(st) == SetServer(st) /\ UNCHANGED <<frame, result>>

\* The state after a step of a worker thread: an exception ends the thread
\* and nothing else.
SetThread(st) == Set([st EXCEPT !.exc = "none"])

Tag(st, p, t) == [st EXCEPT !.tags[p] = @ \cup {t}]
Raise(st, e) == [st EXCEPT !.exc = e]

Init ==
    /\ loop = "running"
    /\ uncaught = "none"
    /\ sock = [p \in Objects |-> "none"]
    /\ handlers = [p \in Objects |-> "unconnected"]
    /\ registered = [p \in Objects |-> "none"]
    /\ write_buffer = [p \in Objects |-> << >>]
    /\ net = [p \in Objects |-> "inprogress"]
    /\ data_received_handler = [s \in Sessions |-> "_client_greeting"]
    /\ remote_server_protocol = [s \in Sessions |-> None]
    /\ client_protocol = [r \in Remotes |-> None]
    /\ lookups = [s \in Sessions |-> 0]
    /\ making = [s \in Sessions |-> 0]
    /\ reads = [p \in Objects |-> 0]
    /\ written = [p \in Objects |-> << >>]
    /\ sent = [p \in Objects |-> << >>]
    /\ received = [p \in Objects |-> << >>]
    /\ lost = [p \in Objects |-> 0]
    /\ requests = [s \in Sessions |-> 0]
    /\ tags = [p \in Objects |-> {}]
    /\ frame = << >>
    /\ result = [op |-> "none", r |-> Returned(<< >>)]

\* -------------------------------------------------- Protocol (protocol.py)

_set_unconnected(st, p) == [st EXCEPT !.handlers[p] = "unconnected"]
_set_connected(st, p) == [st EXCEPT !.handlers[p] = "connected"]
_set_closing(st, p) == [st EXCEPT !.handlers[p] = "closing"]

\* _null_write_handler as it would be if it buffered the data all the same.
_null_write_handler_buffering(st, p, data) ==
    [st EXCEPT !.write_buffer[p] = @ \o data, !.written[p] = @ \o data]

_null_write_handler(st, p, data) == st
_null_network_handler(st, p) == st
_null_closer(st, p) == st

RECURSIVE closing(_, _)

\* Socks5Protocol.connection_lost
Socks5Protocol_connection_lost(st, s) ==
    IF st.remote_server_protocol[s] # None
    THEN closing(st, st.remote_server_protocol[s])
    ELSE st

\* RemoteServerProtocol.connection_lost
RemoteServerProtocol_connection_lost(st, r) == closing(st, st.client_protocol[r])

connection_lost(st, p) ==
    LET s1 == [st EXCEPT !.lost[p] = @ + 1]
    IN IF p \in Sessions THEN Socks5Protocol_connection_lost(s1, p)
       ELSE RemoteServerProtocol_connection_lost(s1, p)

\* _connected_closer as it would be without the call of selector.unregister.
_connected_closer_registered(st, p) ==
    LET s1 == [st EXCEPT !.sock[p] = "closed"]
    IN connection_lost(_set_unconnected(s1, p), p)

\* selector.unregister (its KeyError and ValueError are caught), sock.close,
\* _set_unconnected, connection_lost.
_connected_closer(st, p) ==
    LET s1 == [st EXCEPT !.registered[p] = "none", !.sock[p] = "closed"]
    IN connection_lost(_set_unconnected(s1, p), p)

\* self._closer(sock): the closer the handler fields hold.
_closer(st, p) ==
    IF st.handlers[p] \in {"connected", "closing"}
    THEN _connected_closer(st, p)
    ELSE _null_closer(st, p)

_close(st, p) == _closer(st, p)

\* closing as it would be without the test of the buffer.
closing_without_drain(st, p) ==
    _closer(IF st.sock[p] = "closed" THEN Tag(st, p, "closing_after_closed")
            ELSE IF Len(st.write_buffer[p]) = 0 THEN Tag(st, p, "closing_empty")
            ELSE Tag(st, p, "closing_buffered"), p)

closing(st, p) ==
    LET s1 == IF st.sock[p] = "closed" THEN Tag(st, p, "closing_after_closed")
              ELSE IF Len(st.write_buffer[p]) = 0 THEN Tag(st, p, "closing_empty")
              ELSE Tag(st, p, "closing_buffered")
    IN IF Len(s1.write_buffer[p]) = 0
       THEN _closer(s1, p)
       ELSE _set_closing(s1, p)

\* Protocol.close calls self.closer, a name no class defines (the field is
\* _closer): Python raises AttributeError, and no handler catches it.
close(st, p) == Raise(Tag(st, p, "close"), "AttributeError")

\* selector.modify raises KeyError for a socket that is not registered and
\* ValueError for a closed one; a closed socket has been unregistered.
_connected_write_handler(st, p, data) ==
    LET s1 == [st EXCEPT !.write_buffer[p] = @ \o data, !.written[p] = @ \o data]
    IN IF s1.registered[p] # "none"
       THEN [s1 EXCEPT !.registered[p] = "write"]
       ELSE _close(s1, p)

\* self._write_handler(data)
\* The history records a write() on a closing connection, and whether it
\* changed the buffer, the registration or the handlers.
write(st, p, data) ==
    LET r == IF st.handlers[p] = "connected"
             THEN _connected_write_handler(st, p, data)
             ELSE _null_write_handler(st, p, data)
        changed == \/ r.write_buffer[p] # st.write_buffer[p]
                   \/ r.written[p] # st.written[p]
                   \/ r.registered[p] # st.registered[p]
                   \/ r.handlers[p] # st.handlers[p]
    IN IF st.handlers[p] # "closing" THEN r
       ELSE IF changed
         THEN Tag(Tag(r, p, "write_while_closing"), p, "closing_write_changed")
       ELSE Tag(r, p, "write_while_closing")

\* _connected_writer as it would be if it re-armed the socket read-only after
\* every send, whether the buffer has emptied or not.
_connected_writer_rearming(st, p, n) ==
    IF n = 0 THEN _close(Tag(st, p, "send_error"), p)
    ELSE [st EXCEPT !.sent[p] = @ \o SubSeq(st.write_buffer[p], 1, n),
                    !.write_buffer[p] = SubSeq(@, n + 1, Len(@)),
                    !.registered[p] = "read"]

\* sock.send took the first n bytes of the buffer; n = 0 stands for the
\* OSError it raised instead (the socket was writable and the buffer holds
\* bytes, so a send that returns takes at least one).
_connected_writer(st, p, n) ==
    IF n = 0 THEN _close(Tag(st, p, "send_error"), p)
    ELSE LET s1 == [st EXCEPT !.sent[p] = @ \o SubSeq(st.write_buffer[p], 1, n),
                              !.write_buffer[p] = SubSeq(@, n + 1, Len(@))]
         IN IF Len(s1.write_buffer[p]) = 0
            THEN [s1 EXCEPT !.registered[p] = "read"]
            ELSE s1

_closing_writer(st, p, n) ==
    IF n = 0 THEN _close(Tag(st, p, "send_error"), p)
    ELSE LET s1 == [st EXCEPT !.sent[p] = @ \o SubSeq(st.write_buffer[p], 1, n),
                              !.write_buffer[p] = SubSeq(@, n + 1, Len(@))]
         IN IF Len(s1.write_buffer[p]) = 0
            THEN _close(s1, p)
            ELSE s1

\* Protocol._write: self._writer(sock, mask)
_write(st, p, n) ==
    IF st.handlers[p] = "connected" THEN _connected_writer(st, p, n)
    ELSE IF st.handlers[p] = "closing" THEN _closing_writer(st, p, n)
    ELSE _null_network_handler(st, p)

\* ------------------------------------- Socks5Protocol (socks5_server.py)

\* What the accessor call of socks5_server.py:96, 113 and 120 does.  The
\* source calls peer_connection_parameters / local_connection_parameters,
\* which no class defines: the call raises AttributeError.  Protocol defines
\* peer_connection_params / local_connection_params (protocol.py:86-90).
connection_parameters == "AttributeError"
connection_params == "returns"

\* The local endpoint of an accepted socket, as getsockname gives it to
\* _connection_complete: 127.0.0.1, port 1080.
LocalAddr == <<127, 0, 0, 1>>
LocalPort == 1080

\* The next RemoteServerProtocol object (None when MaxRemotes exist).
NewRemote(st) ==
    IF \E r \in Remotes : st.sock[r] = "none"
    THEN CHOOSE r \in Remotes :
            st.sock[r] = "none" /\ \A q \in Remotes : st.sock[q] = "none" => r <= q
    ELSE None

\* Connector.create_client and Protocol._connection_created: a non-blocking
\* socket whose connect is in progress, registered for write-readiness with
\* _connection_complete and on_failure.
create_client(st, r) ==
    [st EXCEPT !.sock[r] = "open", !.net[r] = "inprogress",
               !.registered[r] = "connection_complete"]

\* Lines 96-104 of _make_client_connection_request.
_make_remote(st, s, acc) ==
    IF acc = connection_parameters THEN Raise(st, "AttributeError")
    ELSE LET r == NewRemote(st)
         IN IF r = None THEN [st EXCEPT !.full = TRUE]
            ELSE create_client(
                    [st EXCEPT !.remote_server_protocol[s] = r,
                               !.client_protocol[r] = s], r)

_make_client_connection_request(st, s, acc) ==
    LET s1 == _make_remote(st, s, acc)
    IN IF s1.exc # "none" \/ s1.full THEN s1
       ELSE [s1 EXCEPT !.data_received_handler[s] = "_null_data_received_handler"]

\* Connector.gethostbyname: a worker thread is started.
gethostbyname(st, s) == [st EXCEPT !.lookups[s] = @ + 1]

\* The history records the replies written (the session was connected, so
\* write() buffered them), and a reply written after another.
remote_connection_failure(st, s, acc) ==
    IF acc = connection_parameters THEN Raise(st, "AttributeError")
    ELSE LET s1 == IF st.handlers[s] # "connected" THEN st
                   ELSE IF "success_reply" \in st.tags[s]
                     THEN Tag(Tag(Tag(st, s, "failure_reply"), s,
                                  "failure_after_success"), s, "second_reply")
                   ELSE Tag(st, s, "failure_reply")
         IN closing(write(s1, s, connection_failure(LocalAddr, LocalPort)), s)

\* remote_connection_success as it would be if it switched the session to
\* _proxy_data without writing the reply.
remote_connection_success_without_reply(st, s, acc) ==
    IF acc = connection_parameters THEN Raise(st, "AttributeError")
    ELSE [st EXCEPT !.data_received_handler[s] = "_proxy_data"]

remote_connection_success(st, s, acc) ==
    IF acc = connection_parameters THEN Raise(st, "AttributeError")
    ELSE LET s1 == IF st.handlers[s] # "connected" THEN st
                   ELSE IF st.tags[s] \cap {"success_reply", "failure_reply"} # {}
                     THEN Tag(Tag(st, s, "success_reply"), s, "second_reply")
                   ELSE Tag(st, s, "success_reply")
             s2 == write(s1, s, connection_success(LocalAddr, LocalPort))
         IN [s2 EXCEPT !.data_received_handler[s] = "_proxy_data"]

_client_greeting(st, s, data) ==
    LET g == handle_client_greeting(data)
    IN IF g.err = "ProtocolError" THEN close(Tag(st, s, "protocol_error"), s)
       ELSE LET auth_method == g.val[1]
                s1 == write(st, s, g.val[2])
            IN IF auth_method = NO_METHOD THEN closing(s1, s)
               ELSE IF auth_method = NO_AUTH
                 THEN [s1 EXCEPT
                         !.data_received_handler[s] = "_parse_client_connection_request"]
               ELSE [Tag(s1, s, "user_pwd") EXCEPT
                         !.data_received_handler[s] = "_username_password_authentication"]

\* _username_password_authentication as it would be with the failure branch
\* falling through to the success branch's handler change instead of closing.
_username_password_authentication_no_closing(st, s, data) ==
    LET up == parse_username_password(data)
    IN IF up.err = "ProtocolError" THEN close(Tag(st, s, "protocol_error"), s)
       ELSE IF up.err # "none" THEN Raise(st, up.err)
       ELSE IF authenticate(up.val[1], up.val[2])
         THEN [write(Tag(st, s, "auth_ok"), s, authentication_success) EXCEPT
                 !.data_received_handler[s] = "_parse_client_connection_request"]
       ELSE [write(Tag(st, s, "auth_fail"), s, authentication_failure) EXCEPT
                 !.data_received_handler[s] = "_parse_client_connection_request"]

_username_password_authentication(st, s, data) ==
    LET up == parse_username_password(data)
    IN IF up.err = "ProtocolError" THEN close(Tag(st, s, "protocol_error"), s)
       ELSE IF up.err # "none" THEN Raise(st, up.err)
       ELSE IF authenticate(up.val[1], up.val[2])
         THEN [write(Tag(st, s, "auth_ok"), s, authentication_success) EXCEPT
                 !.data_received_handler[s] = "_parse_client_connection_request"]
       ELSE closing(write(Tag(st, s, "auth_fail"), s, authentication_failure), s)

_parse_client_connection_request(st, s, data, acc) ==
    LET req == parse_connection_request(data)
    IN IF req.err = "ProtocolError" THEN close(Tag(st, s, "protocol_error"), s)
       ELSE IF req.err # "none" THEN Raise(st, req.err)
       ELSE LET s1 == [st EXCEPT !.requests[s] = @ + 1]
            IN IF req.val[3] = ADDRESS_DOMAIN
               THEN gethostbyname(s1, s)
               ELSE _make_client_connection_request(s1, s, acc)

_null_data_received_handler(st, s, data) == close(st, s)

_proxy_data(st, s, data) ==
    write([st EXCEPT !.received[s] = @ \o data], st.remote_server_protocol[s], data)

\* Socks5Protocol.data_received: the current handler gets the chunk.
Socks5Protocol_data_received(st, s, data, acc) ==
    LET h == st.data_received_handler[s]
        s0 == IF "auth_fail" \in st.tags[s] THEN Tag(st, s, "data_after_auth_fail")
              ELSE st
        s1 == IF st.requests[s] > 0 /\ h # "_proxy_data" THEN Tag(s0, s, "extra_bytes")
              ELSE s0
    IN IF h = "_client_greeting" THEN _client_greeting(s1, s, data)
       ELSE IF h = "_username_password_authentication"
         THEN _username_password_authentication(s1, s, data)
       ELSE IF h = "_parse_client_connection_request"
         THEN _parse_client_connection_request(s1, s, data, acc)
       ELSE IF h = "_null_data_received_handler"
         THEN _null_data_received_handler(s1, s, data)
       ELSE _proxy_data(s1, s, data)

\* ------------------- RemoteServerProtocol (remote_server_protocol.py)

RemoteServerProtocol_on_connect(st, r, acc) ==
    LET s == st.client_protocol[r]
        s1 == IF st.net[r] # "up" THEN Tag(st, s, "success_before_established") ELSE st
    IN remote_connection_success(s1, s, acc)

RemoteServerProtocol_data_received(st, r, data) ==
    write([st EXCEPT !.received[r] = @ \o data], st.client_protocol[r], data)

\* ------------------------------------------ Protocol, the network side

on_connect(st, p, acc) ==
    IF p \in Remotes THEN RemoteServerProtocol_on_connect(st, p, acc) ELSE st

\* The history records a data_received on a connection on which closing()
\* has been called, or that is closed.
data_received(st, p, data, acc) ==
    LET called == st.tags[p] \cap {"closing_empty", "closing_buffered",
                                    "closing_after_closed"} # {}
        s1 == IF called \/ st.sock[p] = "closed"
              THEN Tag(st, p, "data_after_closing") ELSE st
    IN IF p \in Remotes THEN RemoteServerProtocol_data_received(s1, p, data)
       ELSE Socks5Protocol_data_received(s1, p, data, acc)

\* The on_failure a connection was created with: the session's
\* remote_connection_failure for a remote (connector.py:100-104), None for an
\* accepted socket (connector.py:68).
on_failure(st, p, acc) ==
    IF p \in Remotes THEN remote_connection_failure(st, st.client_protocol[p], acc)
    ELSE st

\* ok: getpeername returned.  The socket stays registered with this callback
\* when it did not.
_connection_complete(st, p, ok, acc) ==
    IF ~ok THEN on_failure([st EXCEPT !.net[p] = "down"], p, acc)
    ELSE LET s1 == on_connect(_set_connected([st EXCEPT !.net[p] = "up"], p), p, acc)
         IN IF s1.exc # "none" THEN s1
            ELSE IF s1.registered[p] = "none" THEN on_failure(s1, p, acc)
            ELSE [s1 EXCEPT !.registered[p] = "read"]

\* what: "data" (recv returned the chunk), "eof" (it returned b""), "error"
\* (it raised OSError).
_connected_reader(st, p, what, data, acc) ==
    IF what = "data"
      THEN data_received([st EXCEPT !.reads[p] = @ + 1], p, data, acc)
    ELSE _close(st, p)

\* Protocol._read: self._reader(sock, mask)
_read(st, p, what, data, acc) ==
    IF st.handlers[p] = "connected" THEN _connected_reader(st, p, what, data, acc)
    ELSE _null_network_handler(st, p)

\* ------------------------------------------------------------ environment

\* The chunk a remote server sends next: the payload is passed on unread, so
\* one value per position stands for every value.
RemoteChunks(k) == { <<10 + k>> }

\* The bytes a remote server sends.
RemotePayload ==
    UNION {Range(c) : c \in UNION {RemoteChunks(k) : k \in 0..MaxRemoteReads}}

\* The chunks a client sends: greetings offering NO_AUTH, USER_PWD, an
\* unsupported method and a wrong version; credentials right, wrong and with a
\* wrong version; CONNECT to 127.0.0.1:80, CONNECT to the name "h" port 80, BIND;
\* a chunk of payload, one value per position as for RemoteChunks.
ClientChunks(k) ==
    { <<5, 1, 0>>, <<5, 1, 2>>, <<5, 1, 9>>, <<4, 1, 0>>,
      <<1, 1, 117, 1, 112>>, <<1, 1, 117, 1, 120>>, <<2, 1, 117, 1, 112>>,
      <<5, 1, 0, 1, 127, 0, 0, 1, 0, 80>>, <<5, 1, 0, 3, 1, 104, 0, 80>>,
      <<5, 2, 0, 1, 127, 0, 0, 1, 0, 80>>,
      <<20 + k>> }

Chunks(p) ==
    IF p \in Sessions THEN ClientChunks(reads[p]) ELSE RemoteChunks(reads[p])

RECURSIVE Sum(_, _)
Sum(f, S) == IF S = {} THEN 0 ELSE LET x == CHOOSE x \in S : TRUE
                                   IN f[x] + Sum(f, S \ {x})

\* More chunks may arrive on p's socket.
MayRead(p) ==
    IF p \in Sessions THEN reads[p] < MaxChunks /\ Sum(reads, Sessions) < MaxReads
    ELSE Sum(reads, Remotes) < MaxRemoteReads

\* ------------------------------------------------ Connector (connector.py)

\* Connector.accept: the listening socket is readable; the new Protocol is
\* registered for write-readiness by _connection_created, on_failure None.
accept(s) ==
    /\ loop = "running"
    /\ sock[s] = "none"
    /\ \A q \in Sessions : q < s => sock[q] # "none"
    /\ Set([Cur EXCEPT !.sock[s] = "open", !.registered[s] = "connection_complete"])

\* Connector.start dispatches the write-readiness of a socket registered with
\* _connection_complete.  A connect that failed keeps failing.
ConnectionComplete(p, acc) ==
    /\ loop = "running"
    /\ registered[p] = "connection_complete"
    /\ \E ok \in (IF net[p] = "inprogress" THEN BOOLEAN ELSE {net[p] = "up"}) :
          LET st == _connection_complete(Cur, p, ok, acc)
          IN ~st.full /\ Set(st)

\* Connector.start dispatches the read-readiness of a socket registered with
\* _read.
ReadReady(p, acc) ==
    /\ loop = "running"
    /\ registered[p] = "read"
    /\ \E what \in {"data", "eof", "error"} :
       \E data \in (IF what = "data" THEN Chunks(p) ELSE {<< >>}) :
          /\ what = "data" => MayRead(p)
          /\ LET st == _read(Cur, p, what, data, acc)
             IN ~st.full /\ Set(st)

\* Connector.start dispatches the write-readiness of a socket registered with
\* _write.
WriteReady(p) ==
    /\ loop = "running"
    /\ registered[p] = "write"
    /\ \E n \in 0..Len(write_buffer[p]) : Set(_write(Cur, p, n))

\* The worker thread of Connector._gethostbyname_lookup: socket.gethostbyname
\* raises (socket.gaierror), which ends the thread; callback is not called.
LookupRaises(s) ==
    /\ lookups[s] > 0
    /\ SetThread(Tag([Cur EXCEPT !.lookups[s] = @ - 1], s, "lookup_failed"))

\* The worker thread calls callback(addr): _make_client_connection_request
\* runs on the worker thread, here up to the return of create_client.  The
\* history records the thread the callback ran on.
LookupCallback(s, acc) ==
    /\ lookups[s] > 0
    /\ LET st == _make_remote(Tag([Cur EXCEPT !.lookups[s] = @ - 1], s,
                                  "callback_on_worker_thread"), s, acc)
       IN /\ ~st.full
          /\ SetThread(IF st.exc # "none" THEN st
                       ELSE [st EXCEPT !.making[s] = @ + 1])

\* The worker thread reaches line 105 and assigns the data handler.
LookupSetHandler(s) ==
    /\ making[s] > 0
    /\ SetThread([Cur EXCEPT !.making[s] = @ - 1,
                             !.data_received_handler[s] = "_null_data_received_handler"])

\* The program as the source has it.
Next ==
    \/ \E s \in Sessions : accept(s)
    \/ \E p \in Objects : ConnectionComplete(p, connection_parameters)
    \/ \E p \in Objects : ReadReady(p, connection_parameters)
    \/ \E p \in Objects : WriteReady(p)
    \/ \E s \in Sessions : LookupRaises(s)
    \/ \E s \in Sessions : LookupCallback(s, connection_parameters)

Spec == Init /\ [][Next]_vars

\* The program with the two accessor calls of Socks5Protocol spelled as
\* Protocol defines them.
NextParams ==
    \/ \E s \in 1..MaxPairedSessions : accept(s)
    \/ \E p \in Objects : ConnectionComplete(p, connection_params)
    \/ \E p \in Objects : ReadReady(p, connection_params)
    \/ \E p \in Objects : WriteReady(p)
    \/ \E s \in Sessions : LookupRaises(s)
    \/ \E s \in Sessions : LookupCallback(s, connection_params)
    \/ \E s \in Sessions : LookupSetHandler(s)

SpecParams == Init /\ [][NextParams]_vars

\* The dispatch of ready events by Connector.start and the progress of the
\* worker threads: a socket that stays ready is served, a thread that can
\* run does.
Fairness ==
    /\ \A p \in Objects : WF_vars(ConnectionComplete(p, connection_params))
    /\ \A p \in Objects : WF_vars(WriteReady(p))
    /\ \A s \in Sessions : WF_vars(LookupRaises(s) \/ LookupCallback(s, connection_params))
    /\ \A s \in Sessions : WF_vars(LookupSetHandler(s))

FairSpecParams == SpecParams /\ Fairness

\* The same scheduling of the program as the source has it.
FairnessOfStart ==
    /\ \A p \in Objects : WF_vars(ConnectionComplete(p, connection_parameters))
    /\ \A p \in Objects : WF_vars(WriteReady(p))
    /\ \A s \in Sessions :
          WF_vars(LookupRaises(s) \/ LookupCallback(s, connection_parameters))

FairSpec == Spec /\ FairnessOfStart

\* ------------------------------------------- the codec called on its own

\* The bytes of the frames: the versions, commands, address types, methods
\* and lengths the parsers tell apart, and one byte that is none of them.
GreetingBytes == {0, 1, 2, 3, 5}

RECURSIVE Frames(_, _)
\* The byte sequences of length n or less over the bytes B.
Frames(B, n) ==
    IF n = 0 THEN {<< >>}
    ELSE LET shorter == Frames(B, n - 1)
         IN shorter \cup {Append(f, b) : f \in {g \in shorter : Len(g) = n - 1}, b \in B}

\* The bytes of a request header: the right version, command, reserved byte
\* and address types, and wrong ones.
RequestBytes == {0, 1, 3, 4, 5}

\* What follows the header: nothing, one byte, an IPv4 address and port, the
\* name "h" and port, an IPv6 address and port.
RequestTails ==
    { << >>, <<1>>, <<127, 0, 0, 1, 0, 80>>, <<1, 104, 0, 80>>,
      <<0, 0, 0, 0, 0, 0, 0, 0, 0, 0, 0, 0, 0, 0, 0, 1, 0, 80>> }

RequestFrames ==
    {h \o t : h \in [1..4 -> RequestBytes], t \in RequestTails}

\* The request frames and each of them with its last byte missing.
CodecRequestFrames ==
    RequestFrames \cup {SubSeq(f, 1, Len(f) - 1) : f \in RequestFrames}

\* Socks5.handle_client_greeting(data) is called, once in a run.
HandleClientGreeting ==
    /\ result.op = "none"
    /\ \E d \in Frames(GreetingBytes, MaxGreetingLen) :
          /\ frame' = d
          /\ result' = [op |-> "handle_client_greeting", r |-> handle_client_greeting(d)]
    /\ UNCHANGED server

\* The bytes of a username/password frame: the version, lengths and
\* characters, and a wrong version.
AuthBytes == {0, 1, 2, 3}

\* Socks5.parse_username_password(data) is called, once in a run.
ParseUsernamePassword ==
    /\ result.op = "none"
    /\ \E d \in Frames(AuthBytes, MaxAuthLen) :
          /\ frame' = d
          /\ result' = [op |-> "parse_username_password", r |-> parse_username_password(d)]
    /\ UNCHANGED server

\* Socks5.parse_connection_request(data) is called, once in a run.
ParseConnectionRequest ==
    /\ result.op = "none"
    /\ \E d \in CodecRequestFrames :
          /\ frame' = d
          /\ result' = [op |-> "parse_connection_request", r |-> parse_connection_request(d)]
    /\ UNCHANGED server

CodecNext ==
    \/ HandleClientGreeting
    \/ ParseUsernamePassword
    \/ ParseConnectionRequest

SpecCodec == Init /\ [][CodecNext]_vars

\* ------------------------------- one client, every connection request

\* The client's greeting, offering NO_AUTH, is read.
ReadGreeting(s, acc) ==
    /\ loop = "running"
    /\ registered[s] = "read"
    /\ data_received_handler[s] = "_client_greeting"
    /\ Set(_read(Cur, s, "data", <<PROTOCOL_VERSION, 1, NO_AUTH>>, acc))

\* The first chunk after the greeting is read: data_received hands it to
\* _parse_client_connection_request, which calls
\* Socks5.parse_connection_request(data).
ReadRequest(s, acc) ==
    /\ loop = "running"
    /\ registered[s] = "read"
    /\ data_received_handler[s] = "_parse_client_connection_request"
    /\ result.op = "none"
    /\ \E d \in RequestFrames :
          /\ SetServer(_read(Cur, s, "data", d, acc))
          /\ frame' = d
          /\ result' = [op |-> "parse_connection_request",
                        r |-> parse_connection_request(d)]

RequestNext ==
    \/ accept(1)
    \/ \E p \in Objects : ConnectionComplete(p, connection_parameters)
    \/ ReadGreeting(1, connection_parameters)
    \/ ReadRequest(1, connection_parameters)
    \/ \E p \in Objects : WriteReady(p)
    \/ LookupRaises(1)
    \/ LookupCallback(1, connection_parameters)

SpecRequest == Init /\ [][RequestNext]_vars

\* ------------------------------------------------------------------ claims

IsPrefix(a, b) == Len(a) <= Len(b) /\ SubSeq(b, 1, Len(a)) = a

Closed(p) == sock[p] = "closed"

\* The remote handlers created for session s.
RemotesOf(s) == {r \in Remotes : client_protocol[r] = s}

\* C1: a malformed frame (ProtocolError) in AwaitGreeting, AwaitAuth or
\* AwaitRequest closes the offending session hard (socket closed,
\* connection_lost invoked once), a malformed greeting gets no reply bytes,
\* and the event loop keeps running.
C1_MalformedFrameClosesSession ==
    \A s \in Sessions :
        "protocol_error" \in tags[s] =>
            /\ Closed(s)
            /\ registered[s] = "none"
            /\ lost[s] = 1
            /\ data_received_handler[s] = "_client_greeting" => written[s] = << >>
            /\ loop = "running"

\* C2: in a session whose greeting selected USER_PWD, the request handler is
\* installed, a request parsed, a lookup started or a remote created only
\* after authenticate returned true; after an authentication failure the
\* session has written exactly 05 02 01 FF, is closing or closed, drains what
\* it wrote before it closes (no send error), is handed no further client
\* bytes and writes no CONNECT reply.
C2_AuthenticationGating ==
    \A s \in Sessions :
        /\ ( /\ "user_pwd" \in tags[s]
             /\ \/ data_received_handler[s] \notin
                      {"_client_greeting", "_username_password_authentication"}
                \/ requests[s] > 0
                \/ lookups[s] > 0
                \/ remote_server_protocol[s] # None )
           => "auth_ok" \in tags[s]
        /\ "auth_fail" \in tags[s] =>
            /\ "auth_ok" \notin tags[s]
            /\ written[s] = <<5, 2, 1, 255>>
            /\ handlers[s] \in {"closing", "unconnected"}
            /\ handlers[s] = "closing" => registered[s] = "write"
            /\ handlers[s] = "unconnected" => Closed(s)
            /\ (Closed(s) /\ "send_error" \notin tags[s]) => sent[s] = written[s]
            /\ "data_after_auth_fail" \notin tags[s]
            /\ requests[s] = 0
            /\ tags[s] \cap {"success_reply", "failure_reply"} = {}

\* One session failed authentication, sent 05 02 01 FF and closed; another
\* authenticated and had its connection request parsed.
C2_Witness ==
    \E s, t \in Sessions :
        /\ "auth_fail" \in tags[s] /\ Closed(s) /\ sent[s] = <<5, 2, 1, 255>>
        /\ "user_pwd" \in tags[t] /\ "auth_ok" \in tags[t] /\ requests[t] > 0

C4_ConnectFailureReplied ==
    \A s \in Sessions :
        ("lookup_failed" \in tags[s] \/ \E r \in RemotesOf(s) : net[r] = "down") =>
            /\ "failure_reply" \in tags[s]
            /\ handlers[s] \in {"closing", "unconnected"}

\* C5: a session that accepted a connection request waits for the remote
\* (the null handler is installed); client bytes that arrive before the remote
\* is ready close the session hard, are never parsed as another request and
\* are never forwarded.
C5_ExtraBytesHardClose ==
    \A s \in Sessions :
        /\ requests[s] <= 1
        /\ (requests[s] = 1 /\ loop = "running") =>
              data_received_handler[s] \in {"_null_data_received_handler", "_proxy_data"}
        /\ "extra_bytes" \in tags[s] => (Closed(s) /\ lost[s] = 1)

C7_WrittenBeforeClosingIsSent ==
    \A p \in Objects :
        /\ IsPrefix(sent[p], written[p])
        /\ written[p] = sent[p] \o write_buffer[p]
        /\ ( /\ tags[p] \cap {"closing_buffered", "closing_empty"} # {}
             /\ Closed(p)
             /\ "send_error" \notin tags[p] )
           => sent[p] = written[p]

\* closing() was called on a connection with a reply still buffered, and the
\* connection closed after sending all of it.
C7_Witness ==
    \E p \in Objects :
        /\ "closing_buffered" \in tags[p]
        /\ Closed(p)
        /\ "send_error" \notin tags[p]
        /\ Len(written[p]) >= 2
        /\ sent[p] = written[p]

\* Where the forwarded bytes start in the session's outgoing stream: after
\* the greeting response, the authentication response and the CONNECT reply.
ProxyStart(s) ==
    Len(greeting_response(NO_AUTH))
    + (IF "auth_ok" \in tags[s] THEN Len(authentication_success) ELSE 0)
    + Len(connection_success(LocalAddr, LocalPort))

Forwarded(s) ==
    IF Len(sent[s]) <= ProxyStart(s) THEN << >>
    ELSE SubSeq(sent[s], ProxyStart(s) + 1, Len(sent[s]))

C9_CloseIdempotent ==
    \A p \in Objects :
        /\ lost[p] <= 1
        /\ "close" \in tags[p] => (Closed(p) /\ registered[p] = "none" /\ lost[p] = 1)

Offered(d) == {d[i] : i \in 3..(2 + d[2])}

\* C12: handle_client_greeting raises ProtocolError exactly when
\* len(data) < 3, or data[0] is not 5, or NMETHODS = data[1] is 0, or
\* len(data) < 2 + NMETHODS; otherwise it returns 2 if 2 is among
\* data[2 : 2 + NMETHODS], else 0 if 0 is among them, else 255, together with
\* the response 05, chosen.
C12_HandleClientGreeting ==
    result.op = "handle_client_greeting" =>
        LET malformed == \/ Len(frame) < 3
                         \/ frame[1] # 5
                         \/ frame[2] = 0
                         \/ Len(frame) < 2 + frame[2]
            chosen == IF 2 \in Offered(frame) THEN 2
                      ELSE IF 0 \in Offered(frame) THEN 0 ELSE 255
        IN /\ result.r.err \in {"none", "ProtocolError"}
           /\ result.r.err = "ProtocolError" <=> malformed
           /\ ~malformed => result.r.val = <<chosen, <<5, chosen>>>>

\* A greeting that offers NO_AUTH before USER_PWD, with a byte after the
\* methods, was answered with USER_PWD.
C12_Witness ==
    /\ result.op = "handle_client_greeting"
    /\ frame = <<5, 2, 0, 2, 1>>
    /\ result.r = Returned(<<2, <<5, 2>>>>)

\* C13: for every request frame whose version is not 5, or whose command is
\* not 1, or whose reserved byte is not 0, or whose address type is not 1, 3
\* or 4, parse_connection_request raises ProtocolError, and the session that
\* read the frame has parsed no request, started no lookup and created no
\* outbound connection.
C13_OnlyConnectHonoured ==
    ( /\ result.op = "parse_connection_request"
      /\ Len(frame) >= 4
      /\ \/ frame[1] # 5
         \/ frame[2] # 1
         \/ frame[3] # 0
         \/ frame[4] \notin {1, 3, 4} )
    => /\ result.r.err = "ProtocolError"
       /\ "protocol_error" \in tags[1]
       /\ requests[1] = 0
       /\ lookups[1] = 0
       /\ making[1] = 0
       /\ remote_server_protocol[1] = None
       /\ \A r \in Remotes : sock[r] = "none"

\* The session read a BIND request for 127.0.0.1:80, well-formed but for the
\* command.
C13_Witness ==
    /\ result.op = "parse_connection_request"
    /\ frame = <<5, 3, 0, 1, 127, 0, 0, 1, 0, 80>>
    /\ result.r.err = "ProtocolError"
    /\ "protocol_error" \in tags[1]
    /\ reads[1] = 2

\* The username/password frame of u and p: 01, |u|, u, |p|, p.
Encode(u, p) == <<AUTH_VERSION, Len(u)>> \o u \o <<Len(p)>> \o p

\* C14: for all byte strings u and p, empty ones included,
\* parse_username_password of the frame 01, |u|, u, |p|, p returns (u, p).
C14_UsernamePasswordRoundTrip ==
    result.op = "parse_username_password" =>
        \A u, p \in Frames(AuthBytes, MaxAuthLen - 3) :
            frame = Encode(u, p) => result.r = Returned(<<u, p>>)

\* A greeting of exactly its declared length: 05, NMETHODS >= 1, the methods.
WellFormedGreeting(f) ==
    /\ Len(f) >= 3
    /\ f[1] = 5
    /\ f[2] >= 1
    /\ Len(f) = 2 + f[2]

\* A username/password frame of exactly its declared length.
WellFormedAuth(f) ==
    /\ Len(f) >= 3
    /\ f[1] = 1
    /\ Len(f) >= 3 + f[2]
    /\ Len(f) = 3 + f[2] + f[3 + f[2]]

\* A CONNECT request of exactly its declared length.
WellFormedRequest(f) ==
    /\ Len(f) >= 5
    /\ f[1] = 5 /\ f[2] = 1 /\ f[3] = 0
    /\ \/ f[4] = 1 /\ Len(f) = 10
       \/ f[4] = 3 /\ Len(f) = 7 + f[5]
       \/ f[4] = 4 /\ Len(f) = 22

\* C15: a well-formed greeting, username/password or connection-request
\* frame with its last byte missing makes its parser raise ProtocolError:
\* no other error, and no successful parse.
C15_TruncatedFrameRaises ==
    /\ result.op = "handle_client_greeting" =>
          \A b \in GreetingBytes :
              WellFormedGreeting(Append(frame, b)) => result.r.err = "ProtocolError"
    /\ result.op = "parse_username_password" =>
          \A b \in AuthBytes :
              WellFormedAuth(Append(frame, b)) => result.r.err = "ProtocolError"
    /\ result.op = "parse_connection_request" =>
          \A b \in RequestBytes \cup {80} :
              WellFormedRequest(Append(frame, b)) => result.r.err = "ProtocolError"

Closing(p) == handlers[p] = "closing" /\ ~Closed(p)

\* C17: every connection that enters Closing eventually reaches Closed.
C17_ClosingReachesClosed ==
    \A p \in Objects : Closing(p) ~> Closed(p)

C19_NoClosedSocketRegistered ==
    \A p \in Objects : Closed(p) => registered[p] = "none"

\* A session that had been registered for reading and for writing was
\* closed when its client closed the connection after the greeting.
C19_Witness ==
    \E s \in Sessions :
        /\ Closed(s)
        /\ registered[s] = "none"
        /\ sent[s] = greeting_response(NO_AUTH)
        /\ reads[s] = 1
        /\ lost[s] = 1

C21_CallbackOnLoopThread ==
    \A s \in Sessions :
        /\ "callback_on_worker_thread" \notin tags[s]
        /\ making[s] = 0

\* C22: no exception raised inside a callback that Connector.start
\* dispatched leaves Connector.start: the loop is always running.
C22_LoopSurvivesExceptions ==
    /\ uncaught = "none"
    /\ loop = "running"

ReplyQueued(s) ==
    /\ Len(written[s]) >= ProxyStart(s)
    /\ SubSeq(written[s],
              ProxyStart(s) - Len(connection_success(LocalAddr, LocalPort)) + 1,
              ProxyStart(s)) = connection_success(LocalAddr, LocalPort)

C25_WriteArmed ==
    \A p \in Objects :
        /\ ((handlers[p] = "connected" \/ Closing(p)) /\ write_buffer[p] # << >>)
              => registered[p] = "write"
        /\ registered[p] = "read" => write_buffer[p] = << >>

\* A connected session took part of what it had buffered and stayed armed
\* for writing; a closing one did the same.
C25_Witness ==
    \E p, q \in Objects :
        /\ handlers[p] = "connected"
        /\ sent[p] # << >> /\ write_buffer[p] # << >>
        /\ registered[p] = "write"
        /\ Closing(q)
        /\ sent[q] # << >> /\ write_buffer[q] # << >>
        /\ registered[q] = "write"

====
